---- MODULE Spec2Model ----
(***************************************************************************)
(* Hybrid product recommender: interaction store, collaborative engine,   *)
(* content engine, hybrid scorer and business rules, as implemented in    *)
(* backend/app/recommender and backend/app/services.                      *)
(*                                                                         *)
(* Numbers.  The program computes in floating point.  The model computes  *)
(* in integers:                                                            *)
(*   - a cosine similarity c is held as floor(SCALE * c), in 0..SCALE;    *)
(*   - a collaborative score is held in units of 1/(10*SCALE);            *)
(*   - a content score is held in units of 1/SCALE;                       *)
(*   - a normalized score s/max is held as floor(SCALE * s / max);        *)
(*   - a combined (hybrid) score is held in units of 1/(10*SCALE);        *)
(*   - category_boost is held in hundredths, diversity_penalty in tenths; *)
(*   - a final recommendation score is held in units of 1/(10000*SCALE).  *)
(* Matrix and list positions are 1-based where Python's are 0-based.      *)
(* Queries without ORDER BY return rows in insertion (id) order; Python   *)
(* sets of small ints iterate in ascending order.                         *)
(***************************************************************************)
EXTENDS Integers, Sequences, FiniteSets, TLC

VARIABLES store, catalog, now, svc, ret, lastApi, llm

vars == <<store, catalog, now, svc, ret, lastApi, llm>>

(***************************************************************************)
(* Bounds of the model.                                                    *)
(***************************************************************************)
MaxInteractions == 1
MaxTime == 601
TickSeconds == 300
MaxDeleted == 1
MaxClock == 125
SCALE == 100

Users == {1, 2}
Shoppers == {1}
Products == {1, 2, 3, 4}
NValues == {1, 4}

(***************************************************************************)
(* Generic helpers (Python list / dict / sort semantics).                  *)
(***************************************************************************)
Min2(a, b) == IF a <= b THEN a ELSE b

Range(s) == {s[i] : i \in 1..Len(s)}

Take(s, n) == SubSeq(s, 1, Min2(n, Len(s)))

Reverse(s) == [i \in 1..Len(s) |-> s[Len(s) + 1 - i]]

RECURSIVE SetToSeq(_)
SetToSeq(S) ==
    IF S = {} THEN <<>>
    ELSE LET m == CHOOSE x \in S : \A y \in S : x <= y
         IN <<m>> \o SetToSeq(S \ {m})

RECURSIVE SumOver(_, _)
SumOver(S, f) ==
    IF S = {} THEN 0
    ELSE LET x == CHOOSE y \in S : TRUE
         IN f[x] + SumOver(S \ {x}, f)

MaxOf(S) == CHOOSE x \in S : \A y \in S : y <= x

\* sorted(items, key=score, reverse=True): stable, ties keep list order
SortDesc(s) ==
    LET rank(i) == Cardinality({j \in 1..Len(s) :
                       \/ s[j].score > s[i].score
                       \/ (s[j].score = s[i].score /\ j < i)}) + 1
    IN [k \in 1..Len(s) |-> s[CHOOSE i \in 1..Len(s) : rank(i) = k]]

\* np.argsort(v)[::-1]: ascending stable argsort, reversed
ArgsortReversed(v, n) ==
    LET rank(i) == Cardinality({j \in 1..n :
                       \/ v[j] < v[i]
                       \/ (v[j] = v[i] /\ j < i)}) + 1
        asc == [k \in 1..n |-> CHOOSE i \in 1..n : rank(i) = k]
    IN Reverse(asc)

\* the mutant assigns: a later contribution to a key replaces the earlier
DictAssign(d, k, v) ==
    IF \E i \in 1..Len(d) : d[i].product_id = k
    THEN [i \in 1..Len(d) |->
            IF d[i].product_id = k
            THEN [product_id |-> k, score |-> v]
            ELSE d[i]]
    ELSE Append(d, [product_id |-> k, score |-> v])

\* d[k] = d.get(k, 0) + v on an insertion-ordered dict of (product_id, score)
DictAdd(d, k, v) ==
    IF \E i \in 1..Len(d) : d[i].product_id = k
    THEN [i \in 1..Len(d) |->
            IF d[i].product_id = k
            THEN [product_id |-> k, score |-> d[i].score + v]
            ELSE d[i]]
    ELSE Append(d, [product_id |-> k, score |-> v])

DictKeys(d) == {d[i].product_id : i \in 1..Len(d)}

DictGet(d, k) ==
    IF k \in DictKeys(d)
    THEN (CHOOSE e \in Range(d) : e.product_id = k).score
    ELSE 0

\* the integer square root of x, by bisection of lo..hi (lo * lo <= x < hi * hi)
RECURSIVE Bisect(_, _, _)
Bisect(x, lo, hi) ==
    IF hi - lo <= 1 THEN lo
    ELSE LET mid == (lo + hi) \div 2
         IN IF mid * mid <= x THEN Bisect(x, mid, hi) ELSE Bisect(x, lo, mid)

ISqrt(x) == Bisect(x, 0, SCALE + 1)

\* sklearn cosine_similarity of two non-negative vectors given their dot
\* product and squared norms; a zero vector has similarity 0
Cosine(dot, n1, n2) ==
    IF n1 = 0 \/ n2 = 0 THEN 0
    ELSE ISqrt((SCALE * SCALE * dot * dot) \div (n1 * n2))

(***************************************************************************)
(* Store: interactions and products.                                       *)
(***************************************************************************)
InteractionType == {"view", "click", "cart_add", "purchase"}

\* the mutant gives a view no weight
score_view_free(t) ==
    CASE t = "view" -> 0
      [] t = "click" -> 2
      [] t = "cart_add" -> 3
      [] t = "purchase" -> 5

score(t) ==
    CASE t = "view" -> 1
      [] t = "click" -> 2
      [] t = "cart_add" -> 3
      [] t = "purchase" -> 5

UserInteraction(u, p, t) ==
    [user_id |-> u, product_id |-> p, interaction_type |-> t,
     interaction_score |-> score(t)]

(***************************************************************************)
(* CollaborativeFiltering (app/recommender/collaborative_filtering.py).   *)
(***************************************************************************)
NoFrame == [isNone |-> TRUE, index |-> <<>>, columns |-> <<>>,
            cell |-> [k \in {} |-> 0]]

NoArray == [isNone |-> TRUE, m |-> [k \in {} |-> 0]]

\* DataFrame.empty
Empty(df) == Len(df.index) = 0 \/ Len(df.columns) = 0

\* CollaborativeFiltering.__init__
NewCollaborativeFiltering ==
    [user_item_matrix |-> NoFrame,
     user_similarity_matrix |-> NoArray,
     item_similarity_matrix |-> NoArray,
     user_id_to_idx |-> [k \in {} |-> 0],
     idx_to_user_id |-> [k \in {} |-> 0],
     product_id_to_idx |-> [k \in {} |-> 0],
     idx_to_product_id |-> [k \in {} |-> 0]]

\* the mutant sums nothing: a later interaction of a pair replaces the earlier
build_user_item_matrix_overwrite(interactions) ==
    IF interactions = <<>>
    THEN [isNone |-> FALSE, index |-> <<>>, columns |-> <<>>,
          cell |-> [k \in {} |-> 0]]
    ELSE LET rows == 1..Len(interactions)
             last(u, p) == MaxOf({0} \cup {i \in rows :
                              /\ interactions[i].user_id = u
                              /\ interactions[i].product_id = p})
             index == SetToSeq({interactions[i].user_id : i \in rows})
             columns == SetToSeq({interactions[i].product_id : i \in rows})
         IN [isNone |-> FALSE, index |-> index, columns |-> columns,
             cell |-> [k \in Range(index) \X Range(columns) |->
                         IF last(k[1], k[2]) = 0 THEN 0
                         ELSE interactions[last(k[1], k[2])].interaction_score]]

\* groupby(['user_id','product_id'])['score'].sum(), then pivot().fillna(0):
\* rows and columns are the distinct ids in ascending order
build_user_item_matrix(interactions) ==
    IF interactions = <<>>
    THEN [isNone |-> FALSE, index |-> <<>>, columns |-> <<>>,
          cell |-> [k \in {} |-> 0]]
    ELSE LET rows == 1..Len(interactions)
             groups == {<<interactions[i].user_id, interactions[i].product_id>> :
                          i \in rows}
             sc == [i \in rows |-> interactions[i].interaction_score]
             summed == [g \in groups |->
                          SumOver({i \in rows :
                                     /\ interactions[i].user_id = g[1]
                                     /\ interactions[i].product_id = g[2]}, sc)]
             index == SetToSeq({g[1] : g \in groups})
             columns == SetToSeq({g[2] : g \in groups})
         IN [isNone |-> FALSE, index |-> index, columns |-> columns,
             cell |-> [k \in Range(index) \X Range(columns) |->
                         IF k \in groups THEN summed[k] ELSE 0]]

\* the mutant divides by the first vector's norm only
calculate_user_similarity_one_norm(df) ==
    LET nu == Len(df.index)
        cols == Range(df.columns)
        dot(i, j) == SumOver(cols, [p \in cols |->
                        df.cell[<<df.index[i], p>>] * df.cell[<<df.index[j], p>>]])
    IN [isNone |-> FALSE,
        m |-> [k \in (1..nu) \X (1..nu) |->
                 Cosine(Min2(dot(k[1], k[2]), dot(k[1], k[1])),
                        dot(k[1], k[1]), dot(k[1], k[1]))]]

\* cosine_similarity(user_item_matrix)
calculate_user_similarity(df) ==
    LET nu == Len(df.index)
        cols == Range(df.columns)
        dot(i, j) == SumOver(cols, [p \in cols |->
                        df.cell[<<df.index[i], p>>] * df.cell[<<df.index[j], p>>]])
    IN [isNone |-> FALSE,
        m |-> [k \in (1..nu) \X (1..nu) |->
                 Cosine(dot(k[1], k[2]), dot(k[1], k[1]), dot(k[2], k[2]))]]

\* cosine_similarity(user_item_matrix.T)
calculate_item_similarity(df) ==
    LET np == Len(df.columns)
        us == Range(df.index)
        dot(i, j) == SumOver(us, [u \in us |->
                        df.cell[<<u, df.columns[i]>>] * df.cell[<<u, df.columns[j]>>]])
    IN [isNone |-> FALSE,
        m |-> [k \in (1..np) \X (1..np) |->
                 Cosine(dot(k[1], k[2]), dot(k[1], k[1]), dot(k[2], k[2]))]]

\* the mutant fits incrementally: the scores of the store are added to the
\* matrix the engine already holds
fit_incremental(cf, interactions) ==
    LET fresh == build_user_item_matrix(interactions)
        old == cf.user_item_matrix
        df == [fresh EXCEPT !.cell =
                  [k \in DOMAIN fresh.cell |->
                      fresh.cell[k]
                        + (IF k \in DOMAIN old.cell THEN old.cell[k] ELSE 0)]]
    IN IF Empty(df)
       THEN [cf EXCEPT !.user_item_matrix = df]
       ELSE [user_item_matrix |-> df,
             user_similarity_matrix |-> calculate_user_similarity(df),
             item_similarity_matrix |-> calculate_item_similarity(df),
             user_id_to_idx |-> [u \in Range(df.index) |->
                                   CHOOSE i \in 1..Len(df.index) : df.index[i] = u],
             idx_to_user_id |-> [i \in 1..Len(df.index) |-> df.index[i]],
             product_id_to_idx |-> [q \in Range(df.columns) |->
                                   CHOOSE i \in 1..Len(df.columns) : df.columns[i] = q],
             idx_to_product_id |-> [i \in 1..Len(df.columns) |-> df.columns[i]]]

\* CollaborativeFiltering.fit: on an empty matrix it returns before touching
\* the mappings and the similarity matrices
fit(cf, interactions) ==
    LET df == build_user_item_matrix(interactions)
    IN IF Empty(df)
       THEN [cf EXCEPT !.user_item_matrix = df]
       ELSE [user_item_matrix |-> df,
             user_similarity_matrix |-> calculate_user_similarity(df),
             item_similarity_matrix |-> calculate_item_similarity(df),
             user_id_to_idx |-> [u \in Range(df.index) |->
                                   CHOOSE i \in 1..Len(df.index) : df.index[i] = u],
             idx_to_user_id |-> [i \in 1..Len(df.index) |-> df.index[i]],
             product_id_to_idx |-> [p \in Range(df.columns) |->
                                   CHOOSE i \in 1..Len(df.columns) : df.columns[i] = p],
             idx_to_product_id |-> [i \in 1..Len(df.columns) |-> df.columns[i]]]

RECURSIVE Flatten(_)
Flatten(ss) == IF ss = <<>> THEN <<>> ELSE Head(ss) \o Flatten(Tail(ss))

RECURSIVE Accumulate(_, _)
Accumulate(contribs, d) ==
    IF contribs = <<>> THEN d
    ELSE Accumulate(Tail(contribs),
                    DictAdd(d, Head(contribs).product_id, Head(contribs).score))

\* the mutant keeps the products the user already interacted with
get_user_based_recommendations_unfiltered(cf, user_id, n) ==
    LET df == cf.user_item_matrix
    IN IF df.isNone \/ Empty(df) THEN <<>>
       ELSE IF user_id \notin DOMAIN cf.user_id_to_idx THEN <<>>
       ELSE
         LET user_idx == cf.user_id_to_idx[user_id]
             nu == Len(df.index)
             np == Len(df.columns)
             user_similarities == [j \in 1..nu |->
                                     cf.user_similarity_matrix.m[<<user_idx, j>>]]
             similar_user_indices ==
                 SubSeq(ArgsortReversed(user_similarities, nu), 2, Min2(6, nu))
             contrib(v) ==
                 IF user_similarities[v] <= 0 THEN <<>>
                 ELSE SelectSeq(
                        [k \in 1..np |->
                           [product_id |-> cf.idx_to_product_id[k],
                            interaction |-> df.cell[<<df.index[v], df.columns[k]>>],
                            score |-> 10 * user_similarities[v]
                                        * df.cell[<<df.index[v], df.columns[k]>>]]],
                        LAMBDA e : e.interaction > 0)
             product_scores ==
                 Accumulate(Flatten([i \in 1..Len(similar_user_indices) |->
                                       contrib(similar_user_indices[i])]), <<>>)
         IN Take(SortDesc(product_scores), n)

\* CollaborativeFiltering.get_user_based_recommendations; scores in 1/(10*SCALE)
get_user_based_recommendations(cf, user_id, n) ==
    LET df == cf.user_item_matrix
    IN IF df.isNone \/ Empty(df) THEN <<>>
       ELSE IF user_id \notin DOMAIN cf.user_id_to_idx THEN <<>>
       ELSE
         LET user_idx == cf.user_id_to_idx[user_id]
             nu == Len(df.index)
             np == Len(df.columns)
             user_similarities == [j \in 1..nu |->
                                     cf.user_similarity_matrix.m[<<user_idx, j>>]]
             \* [::-1][1:6]
             similar_user_indices ==
                 SubSeq(ArgsortReversed(user_similarities, nu), 2, Min2(6, nu))
             user_interacted_products ==
                 {p \in Range(df.columns) : df.cell[<<df.index[user_idx], p>>] > 0}
             contrib(v) ==
                 IF user_similarities[v] <= 0 THEN <<>>
                 ELSE SelectSeq(
                        [k \in 1..np |->
                           [product_id |-> cf.idx_to_product_id[k],
                            interaction |-> df.cell[<<df.index[v], df.columns[k]>>],
                            score |-> 10 * user_similarities[v]
                                        * df.cell[<<df.index[v], df.columns[k]>>]]],
                        LAMBDA e : /\ e.interaction > 0
                                   /\ e.product_id \notin user_interacted_products)
             product_scores ==
                 Accumulate(Flatten([i \in 1..Len(similar_user_indices) |->
                                       contrib(similar_user_indices[i])]), <<>>)
         IN Take(SortDesc(product_scores), n)

\* the mutant answers an unknown user with the first product of the matrix
get_item_based_recommendations_unknown(cf, user_id, n) ==
    LET df == cf.user_item_matrix
    IN IF df.isNone \/ Empty(df) THEN <<>>
       ELSE [i \in 1..1 |-> [product_id |-> df.columns[1], score |-> 0]]

\* CollaborativeFiltering.get_item_based_recommendations; scores in 1/(10*SCALE)
get_item_based_recommendations(cf, user_id, n) ==
    LET df == cf.user_item_matrix
    IN IF df.isNone \/ Empty(df) THEN <<>>
       ELSE IF user_id \notin DOMAIN cf.user_id_to_idx THEN <<>>
       ELSE
         LET user_idx == cf.user_id_to_idx[user_id]
             np == Len(df.columns)
             user_interactions == [k \in 1..np |->
                                     df.cell[<<df.index[user_idx], df.columns[k]>>]]
             interacted_product_indices ==
                 SetToSeq({k \in 1..np : user_interactions[k] > 0})
             contrib(src) ==
                 SelectSeq(
                   [k \in 1..np |->
                      [product_id |-> cf.idx_to_product_id[k],
                       idx |-> k,
                       sim |-> cf.item_similarity_matrix.m[<<src, k>>],
                       score |-> 10 * cf.item_similarity_matrix.m[<<src, k>>]
                                   * user_interactions[src]]],
                   LAMBDA e : /\ e.idx # src
                              /\ e.sim > 0
                              /\ ~(user_interactions[e.idx] > 0))
             product_scores ==
                 Accumulate(Flatten([i \in 1..Len(interacted_product_indices) |->
                                       contrib(interacted_product_indices[i])]), <<>>)
         IN IF Len(interacted_product_indices) = 0 THEN <<>>
            ELSE Take(SortDesc(product_scores), n)

\* the mutant weighs both lists equally
cf_get_hybrid_recommendations_even(cf, user_id, n) ==
    LET user_based_recs == get_user_based_recommendations(cf, user_id, n * 2)
        item_based_recs == get_item_based_recommendations(cf, user_id, n * 2)
        weighted(recs, w) ==
            [i \in 1..Len(recs) |->
               [product_id |-> recs[i].product_id,
                score |-> (w * recs[i].score) \div 10]]
        combined_scores ==
            Accumulate(weighted(item_based_recs, 5),
                       Accumulate(weighted(user_based_recs, 5), <<>>))
    IN Take(SortDesc(combined_scores), n)

\* CollaborativeFiltering.get_hybrid_recommendations:
\* 0.6 * user-based + 0.4 * item-based over lists of size 2n
cf_get_hybrid_recommendations(cf, user_id, n) ==
    LET user_based_recs == get_user_based_recommendations(cf, user_id, n * 2)
        item_based_recs == get_item_based_recommendations(cf, user_id, n * 2)
        weighted(recs, w) ==
            [i \in 1..Len(recs) |->
               [product_id |-> recs[i].product_id,
                score |-> (w * recs[i].score) \div 10]]
        combined_scores ==
            Accumulate(weighted(item_based_recs, 4),
                       Accumulate(weighted(user_based_recs, 6), <<>>))
    IN Take(SortDesc(combined_scores), n)

\* the mutant ignores exclude_product_ids
get_popular_products_unfiltered(cf, products, n, exclude_product_ids) ==
    LET df == cf.user_item_matrix
    IN IF df.isNone \/ Empty(df)
       THEN LET ids == Take(SetToSeq(DOMAIN products), n)
            IN [i \in 1..Len(ids) |->
                  [product_id |-> ids[i], score |-> 10 * SCALE]]
       ELSE LET us == Range(df.index)
                popular_products ==
                    [k \in 1..Len(df.columns) |->
                       [product_id |-> df.columns[k],
                        score |-> 10 * SCALE *
                            SumOver(us, [u \in us |-> df.cell[<<u, df.columns[k]>>]])]]
            IN Take(SortDesc(popular_products), n)

\* CollaborativeFiltering.get_popular_products; scores in 1/(10*SCALE)
get_popular_products(cf, products, n, exclude_product_ids) ==
    LET df == cf.user_item_matrix
    IN IF df.isNone \/ Empty(df)
       THEN LET ids == Take(SetToSeq(DOMAIN products), n)
            IN [i \in 1..Len(ids) |->
                  [product_id |-> ids[i], score |-> 10 * SCALE]]
       ELSE LET us == Range(df.index)
                popular_products ==
                    [k \in 1..Len(df.columns) |->
                       [product_id |-> df.columns[k],
                        score |-> 10 * SCALE *
                            SumOver(us, [u \in us |-> df.cell[<<u, df.columns[k]>>]])]]
                kept == SelectSeq(popular_products,
                            LAMBDA e : e.product_id \notin exclude_product_ids)
            IN Take(SortDesc(kept), n)

\* the mutant has no cold-start delegation: an unknown user gets what the
\* requested method yields for it
cf_recommend_no_cold_start(cf, products, user_id, n, method) ==
    CASE method = "user_based" ->
           get_user_based_recommendations(cf, user_id, n)
      [] method = "item_based" ->
           get_item_based_recommendations(cf, user_id, n)
      [] OTHER -> cf_get_hybrid_recommendations(cf, user_id, n)

\* CollaborativeFiltering.get_recommendations, after its lazy fit
cf_recommend(cf, products, user_id, n, method) ==
    LET df == cf.user_item_matrix
        is_cold_start == \/ df.isNone
                         \/ Empty(df)
                         \/ user_id \notin DOMAIN cf.user_id_to_idx
        recommendations ==
            CASE method = "user_based" ->
                   get_user_based_recommendations(cf, user_id, n)
              [] method = "item_based" ->
                   get_item_based_recommendations(cf, user_id, n)
              [] OTHER -> cf_get_hybrid_recommendations(cf, user_id, n)
        exclude_ids ==
            {p \in Range(df.columns) : df.cell[<<user_id, p>>] > 0}
    IN IF is_cold_start
       THEN get_popular_products(cf, products, n, {})
       ELSE IF recommendations = <<>>
            THEN get_popular_products(cf, products, n, exclude_ids)
            ELSE recommendations

\* the lazy fit at the head of CollaborativeFiltering.get_recommendations
cf_ensure_fit(cf, interactions) ==
    IF cf.user_item_matrix.isNone THEN fit(cf, interactions) ELSE cf

(***************************************************************************)
(* ContentBasedRecommender (app/recommender/content_based.py).            *)
(* A product carries at most one single-word tag, so that its TF-IDF row  *)
(* after L2 normalization is the unit vector of that tag (the zero vector *)
(* when it has no tag).  Feature rows are held multiplied by 10 * R,      *)
(* R = max price - min price (1 when all prices are equal): cosine        *)
(* similarity does not depend on that factor.                              *)
(***************************************************************************)
Product(category, price, tags) ==
    [category |-> category, price |-> price, tags |-> tags]

\* ContentBasedRecommender.__init__
NewContentBasedRecommender ==
    [product_ids |-> <<>>,
     feature_matrix |-> [isNone |-> TRUE, rows |-> <<>>],
     similarity_matrix |-> NoArray,
     product_id_to_idx |-> [k \in {} |-> 0],
     idx_to_product_id |-> [k \in {} |-> 0]]

\* ContentBasedRecommender._process_tags
_process_tags(tags) == IF tags = <<>> THEN "" ELSE tags[1]

\* TfidfVectorizer.fit_transform raises ValueError on an empty vocabulary
EmptyVocabulary(products) ==
    \A p \in DOMAIN products : _process_tags(products[p].tags) = ""

\* the weighted rows of ContentBasedRecommender.build_feature_matrix
FeatureRows(products) ==
    LET ids == SetToSeq(DOMAIN products)
        prices == {products[p].price : p \in DOMAIN products}
        lo == CHOOSE x \in prices : \A y \in prices : x <= y
        hi == MaxOf(prices)
        R == IF hi = lo THEN 1 ELSE hi - lo
    IN [i \in 1..Len(ids) |->
          [category |-> products[ids[i]].category,
           category_w |-> 4 * R,
           price_w |-> 2 * (products[ids[i]].price - lo),
           tag |-> _process_tags(products[ids[i]].tags),
           tag_w |-> 4 * R]]

FeatureDot(a, b) ==
    (IF a.category = b.category THEN a.category_w * b.category_w ELSE 0)
    + a.price_w * b.price_w
    + (IF a.tag # "" /\ a.tag = b.tag THEN a.tag_w * b.tag_w ELSE 0)

\* ContentBasedRecommender.calculate_similarity_matrix
calculate_similarity_matrix(rows) ==
    [isNone |-> FALSE,
     m |-> [k \in (1..Len(rows)) \X (1..Len(rows)) |->
              Cosine(FeatureDot(rows[k[1]], rows[k[2]]),
                     FeatureDot(rows[k[1]], rows[k[1]]),
                     FeatureDot(rows[k[2]], rows[k[2]]))]]

\* ContentBasedRecommender.fit with build_feature_matrix inlined; the result
\* carries the engine after the call and whether the call raised
cb_fit(cb, products) ==
    IF DOMAIN products = {}
    THEN [cb |-> [cb EXCEPT !.feature_matrix = [isNone |-> FALSE, rows |-> <<>>]],
          raised |-> FALSE]
    ELSE LET ids == SetToSeq(DOMAIN products)
             mapped == [cb EXCEPT
                          !.product_ids = ids,
                          !.product_id_to_idx =
                              [p \in DOMAIN products |->
                                 CHOOSE i \in 1..Len(ids) : ids[i] = p],
                          !.idx_to_product_id = [i \in 1..Len(ids) |-> ids[i]]]
         IN IF EmptyVocabulary(products)
            THEN [cb |-> mapped, raised |-> TRUE]
            ELSE [cb |-> [mapped EXCEPT
                            !.feature_matrix =
                                [isNone |-> FALSE, rows |-> FeatureRows(products)],
                            !.similarity_matrix =
                                calculate_similarity_matrix(FeatureRows(products))],
                  raised |-> FALSE]

\* len(similarity_matrix[i]): the side of a square array
Side(a) == Cardinality({k[1] : k \in DOMAIN a.m})

\* ContentBasedRecommender.get_similar_products; scores in 1/SCALE
get_similar_products(cb, product_id, n) ==
    IF cb.similarity_matrix.isNone \/ DOMAIN cb.similarity_matrix.m = {}
    THEN <<>>
    ELSE IF product_id \notin DOMAIN cb.product_id_to_idx THEN <<>>
    ELSE LET product_idx == cb.product_id_to_idx[product_id]
             size == Side(cb.similarity_matrix)
             similarity_scores == [j \in 1..size |->
                                     cb.similarity_matrix.m[<<product_idx, j>>]]
             \* [::-1][1:n+1]
             similar_indices ==
                 SubSeq(ArgsortReversed(similarity_scores, size), 2,
                        Min2(n + 1, size))
         IN [i \in 1..Len(similar_indices) |->
               [product_id |-> cb.idx_to_product_id[similar_indices[i]],
                score |-> similarity_scores[similar_indices[i]]]]

\* ContentBasedRecommender._get_popular_products: products by interaction
\* count, normalized by the largest count returned
_get_popular_products(interactions, products, n, exclude_ids) ==
    LET ids == SetToSeq(DOMAIN products \ exclude_ids)
        counted == [i \in 1..Len(ids) |->
                      [product_id |-> ids[i],
                       score |-> Cardinality({k \in 1..Len(interactions) :
                                    interactions[k].product_id = ids[i]})]]
        popular_products == Take(SortDesc(counted), n)
        counts == {popular_products[i].score : i \in 1..Len(popular_products)}
        max_count == IF MaxOf(counts) = 0 THEN 1 ELSE MaxOf(counts)
    IN IF popular_products = <<>> THEN <<>>
       ELSE [i \in 1..Len(popular_products) |->
               [product_id |-> popular_products[i].product_id,
                score |-> (SCALE * popular_products[i].score) \div max_count]]

\* the loop of get_recommendations_for_user over the user's interactions:
\* acc holds interacted_product_ids and product_scores
RECURSIVE ScoreHistory(_, _, _, _)
ScoreHistory(cb, user_interactions, n, acc) ==
    IF user_interactions = <<>> THEN acc
    ELSE LET interaction == Head(user_interactions)
             interacted == acc.interacted_product_ids \cup {interaction.product_id}
             similar_products ==
                 get_similar_products(cb, interaction.product_id, n * 3)
             kept == SelectSeq(similar_products,
                         LAMBDA e : e.product_id \notin interacted)
             weighted == [i \in 1..Len(kept) |->
                            [product_id |-> kept[i].product_id,
                             score |-> kept[i].score * interaction.interaction_score]]
         IN ScoreHistory(cb, Tail(user_interactions), n,
                [interacted_product_ids |-> interacted,
                 product_scores |-> Accumulate(weighted, acc.product_scores)])

\* ContentBasedRecommender.get_recommendations_for_user; scores in 1/SCALE
get_recommendations_for_user(cb, interactions, products, user_id, n) ==
    LET user_interactions ==
            SelectSeq(interactions, LAMBDA i : i.user_id = user_id)
        acc == ScoreHistory(cb, user_interactions, n,
                   [interacted_product_ids |-> {}, product_scores |-> <<>>])
    IN IF cb.similarity_matrix.isNone \/ DOMAIN cb.similarity_matrix.m = {}
       THEN <<>>
       ELSE IF user_interactions = <<>>
       THEN _get_popular_products(interactions, products, n, {})
       ELSE IF acc.product_scores = <<>>
       THEN _get_popular_products(interactions, products, n,
                                  acc.interacted_product_ids)
       ELSE Take(SortDesc(acc.product_scores), n)

\* ContentBasedRecommender.get_recommendations: lazy fit, then the user's list
cb_get_recommendations(cb, interactions, products, user_id, n) ==
    LET fitted == IF cb.feature_matrix.isNone
                  THEN cb_fit(cb, products)
                  ELSE [cb |-> cb, raised |-> FALSE]
    IN [cb |-> fitted.cb,
        raised |-> fitted.raised,
        fits |-> IF cb.feature_matrix.isNone THEN 1 ELSE 0,
        recs |-> IF fitted.raised THEN <<>>
                 ELSE get_recommendations_for_user(fitted.cb, interactions,
                                                   products, user_id, n)]

(***************************************************************************)
(* RecommendationService (app/services/recommendation_service.py).        *)
(***************************************************************************)
_cache_ttl == 300
collaborative_weight == 4
content_based_weight == 6
category_boost_factor == 130
max_products_per_category == 2
diversity_penalty == 8

\* the value None of _last_training_time
NoTime == 0 - 1

\* RecommendationService.__init__: fresh engines; _last_training_time reads
\* the class attribute, which nothing ever assigns
NewRecommendationService ==
    [collaborative_filter |-> NewCollaborativeFiltering,
     content_based_filter |-> NewContentBasedRecommender,
     _last_training_time |-> NoTime]

\* RecommendationService.train_models at time t
train_models(s, interactions, products, t) ==
    IF /\ s._last_training_time # NoTime
       /\ (t - s._last_training_time) < _cache_ttl
       /\ ~s.collaborative_filter.user_item_matrix.isNone
    THEN [svc |-> s, raised |-> FALSE, fits |-> 0, cached |-> TRUE]
    ELSE LET cf == fit(s.collaborative_filter, interactions)
             cbr == cb_fit(s.content_based_filter, products)
         IN IF cbr.raised
            THEN [svc |-> [s EXCEPT !.collaborative_filter = cf,
                                    !.content_based_filter = cbr.cb],
                  raised |-> TRUE, fits |-> 2, cached |-> FALSE]
            ELSE [svc |-> [collaborative_filter |-> cf,
                           content_based_filter |-> cbr.cb,
                           _last_training_time |-> t],
                  raised |-> FALSE, fits |-> 2, cached |-> FALSE]

\* the mutant filters on the wrong interaction type
get_purchased_product_ids_cart(interactions, user_id) ==
    {interactions[i].product_id : i \in
        {k \in 1..Len(interactions) :
            /\ interactions[k].user_id = user_id
            /\ interactions[k].interaction_type = "cart_add"}}

\* RecommendationService.get_purchased_product_ids
get_purchased_product_ids(interactions, user_id) ==
    {interactions[i].product_id : i \in
        {k \in 1..Len(interactions) :
            /\ interactions[k].user_id = user_id
            /\ interactions[k].interaction_type = "purchase"}}

\* the order in which GROUP BY returns categories of equal total
CategoryOrder == <<"A", "B">>

CategoryRank(c) == CHOOSE i \in 1..Len(CategoryOrder) : CategoryOrder[i] = c

\* RecommendationService.get_user_preferred_categories: the top_n categories
\* by summed interaction score, as (category, total) rows, best first
get_user_preferred_categories(interactions, products, user_id, top_n) ==
    LET mine == {k \in 1..Len(interactions) :
                    /\ interactions[k].user_id = user_id
                    /\ interactions[k].product_id \in DOMAIN products}
        cats == {products[interactions[k].product_id].category : k \in mine}
        sc == [k \in mine |-> interactions[k].interaction_score]
        total(c) == SumOver({k \in mine :
                       products[interactions[k].product_id].category = c}, sc)
        rank(c) == Cardinality({d \in cats :
                       \/ total(d) > total(c)
                       \/ (total(d) = total(c) /\ CategoryRank(d) < CategoryRank(c))}) + 1
        rowsByRank == [r \in 1..Cardinality(cats) |->
                         LET c == CHOOSE d \in cats : rank(d) = r
                         IN [category |-> c, total_score |-> total(c)]]
    IN Take(rowsByRank, top_n)

\* max_x = max(scores.values()) if scores else 1.0
MaxScore(recs) ==
    IF recs = <<>> THEN 1 ELSE MaxOf({recs[i].score : i \in 1..Len(recs)})

\* the weights get_hybrid_recommendations uses, in tenths
HybridWeights(preferred_categories) ==
    IF preferred_categories # <<>>
    THEN [collaborative |-> 3, content |-> 7]
    ELSE [collaborative |-> collaborative_weight, content |-> content_based_weight]

\* the mutant normalizes both lists by one maximum, the larger of the two
CombineScoresCommonMax(collab_recs, content_recs, w) ==
    LET all_product_ids == SetToSeq(DictKeys(collab_recs) \cup DictKeys(content_recs))
        max_both == MaxOf({MaxScore(collab_recs), MaxScore(content_recs)})
        collab_score(p) == (SCALE * DictGet(collab_recs, p)) \div max_both
        content_score(p) == (SCALE * DictGet(content_recs, p)) \div max_both
    IN [i \in 1..Len(all_product_ids) |->
          LET p == all_product_ids[i]
          IN [product_id |-> p,
              score |-> collab_score(p) * w.collaborative
                          + content_score(p) * w.content,
              components |->
                  [collaborative_score |-> collab_score(p) * w.collaborative,
                   content_based_score |-> content_score(p) * w.content,
                   combined_base_score |-> collab_score(p) * w.collaborative
                                             + content_score(p) * w.content]]]

\* the scoring loop of get_hybrid_recommendations over both engines' lists
CombineScores(collab_recs, content_recs, w) ==
    LET all_product_ids == SetToSeq(DictKeys(collab_recs) \cup DictKeys(content_recs))
        max_collab == MaxScore(collab_recs)
        max_content == MaxScore(content_recs)
        collab_score(p) == (SCALE * DictGet(collab_recs, p)) \div max_collab
        content_score(p) == (SCALE * DictGet(content_recs, p)) \div max_content
    IN [i \in 1..Len(all_product_ids) |->
          LET p == all_product_ids[i]
          IN [product_id |-> p,
              score |-> collab_score(p) * w.collaborative
                          + content_score(p) * w.content,
              components |->
                  [collaborative_score |-> collab_score(p) * w.collaborative,
                   content_based_score |-> content_score(p) * w.content,
                   combined_base_score |-> collab_score(p) * w.collaborative
                                             + content_score(p) * w.content]]]

\* RecommendationService.get_hybrid_recommendations, both engines' lazy fits
\* included; raised is "" or the name of the exception
get_hybrid_recommendations(s, interactions, products, user_id, n) ==
    LET w == HybridWeights(
                get_user_preferred_categories(interactions, products, user_id, 3))
        cf_fits == IF s.collaborative_filter.user_item_matrix.isNone THEN 1 ELSE 0
        Combined(cf, collab_recs, content) ==
            LET after == [s EXCEPT !.collaborative_filter = cf,
                                   !.content_based_filter = content.cb]
                fits == cf_fits + content.fits
                all_product_ids == DictKeys(collab_recs) \cup DictKeys(content.recs)
            IN IF content.raised
               THEN [svc |-> after, raised |-> "ValueError", fits |-> fits,
                     recs |-> <<>>]
               ELSE IF /\ all_product_ids # {}
                       /\ (MaxScore(collab_recs) = 0 \/ MaxScore(content.recs) = 0)
               THEN [svc |-> after, raised |-> "ZeroDivisionError",
                     fits |-> fits, recs |-> <<>>]
               ELSE [svc |-> after, raised |-> "", fits |-> fits,
                     recs |-> SortDesc(CombineScores(collab_recs, content.recs, w))]
        Collaborative(cf) ==
            Combined(cf, cf_recommend(cf, products, user_id, n, "hybrid"),
                     cb_get_recommendations(s.content_based_filter, interactions,
                                            products, user_id, n))
    IN Collaborative(cf_ensure_fit(s.collaborative_filter, interactions))

\* product_category_map.get(product_id)
CategoryOf(products, p) ==
    IF p \in DOMAIN products THEN products[p].category ELSE "None"

\* Rule 1 of apply_business_rules
FilterPurchased(recommendations, purchased_ids) ==
    SelectSeq(recommendations, LAMBDA r : r.product_id \notin purchased_ids)

\* Rule 2 of apply_business_rules: the factor of one candidate, in hundredths
CategoryBoost(category, preferred_categories) ==
    IF \E i \in 1..Len(preferred_categories) :
           preferred_categories[i].category = category
    THEN IF category = preferred_categories[1].category
         THEN (category_boost_factor * 15) \div 10
         ELSE category_boost_factor
    ELSE 100

\* the mutant boosts the score and records no boost in the breakdown
BoostAndSortUnrecorded(products, filtered_recs, preferred_categories) ==
    SortDesc([i \in 1..Len(filtered_recs) |->
        LET r == filtered_recs[i]
            category_boost ==
                CategoryBoost(CategoryOf(products, r.product_id),
                              preferred_categories)
        IN [product_id |-> r.product_id,
            score |-> r.score * category_boost,
            components |-> ("category_boost" :> 100) @@ r.components]])

\* Rule 2 of apply_business_rules over the list, then the sort
BoostAndSort(products, filtered_recs, preferred_categories) ==
    SortDesc([i \in 1..Len(filtered_recs) |->
        LET r == filtered_recs[i]
            category_boost ==
                CategoryBoost(CategoryOf(products, r.product_id),
                              preferred_categories)
        IN [product_id |-> r.product_id,
            score |-> r.score * category_boost,
            components |-> ("category_boost" :> category_boost) @@ r.components]])

RECURSIVE DiversityWalk(_, _, _, _, _)

\* the mutant counts nothing: every candidate is admitted at full score
DiversityWalkUncapped(products, boosted_recs, category_counts, diverse_recs, n_final) ==
    LET walked == Take(boosted_recs, n_final * 2)
    IN [i \in 1..Len(walked) |->
          [product_id |-> walked[i].product_id, score |-> walked[i].score * 10,
           components |-> ("diversity_penalty" :> 10) @@ walked[i].components]]

\* Rule 3 of apply_business_rules: the walk over the boosted list
DiversityWalk(products, boosted_recs, category_counts, diverse_recs, n_final) ==
    IF boosted_recs = <<>> THEN diverse_recs
    ELSE LET r == Head(boosted_recs)
             category == CategoryOf(products, r.product_id)
             within == category_counts[category] < max_products_per_category
             admitted ==
                 IF within
                 THEN Append(diverse_recs,
                        [product_id |-> r.product_id, score |-> r.score * 10,
                         components |->
                             ("diversity_penalty" :> 10) @@ r.components])
                 ELSE Append(diverse_recs,
                        [product_id |-> r.product_id,
                         score |-> r.score * diversity_penalty,
                         components |->
                             ("diversity_penalty" :> diversity_penalty)
                                 @@ r.components])
             counts == IF within
                       THEN [category_counts EXCEPT ![category] = @ + 1]
                       ELSE category_counts
         IN IF Len(admitted) >= n_final * 2 THEN admitted
            ELSE DiversityWalk(products, Tail(boosted_recs), counts, admitted,
                               n_final)

\* the mutant returns the whole diversified list, not its first n_final
apply_business_rules_untruncated(interactions, products, user_id, recommendations, n_final) ==
    LET purchased_ids == get_purchased_product_ids(interactions, user_id)
        filtered_recs == FilterPurchased(recommendations, purchased_ids)
        preferred_categories ==
            get_user_preferred_categories(interactions, products, user_id, 3)
        boosted_recs == BoostAndSort(products, filtered_recs, preferred_categories)
    IN SortDesc(DiversityWalk(products, boosted_recs,
                              [c \in Range(CategoryOrder) \cup {"None"} |-> 0],
                              <<>>, n_final))

\* RecommendationService.apply_business_rules
apply_business_rules(interactions, products, user_id, recommendations, n_final) ==
    LET purchased_ids == get_purchased_product_ids(interactions, user_id)
        filtered_recs == FilterPurchased(recommendations, purchased_ids)
        preferred_categories ==
            get_user_preferred_categories(interactions, products, user_id, 3)
        boosted_recs == BoostAndSort(products, filtered_recs, preferred_categories)
        diverse_recs ==
            DiversityWalk(products, boosted_recs,
                          [c \in Range(CategoryOrder) \cup {"None"} |-> 0],
                          <<>>, n_final)
    IN Take(SortDesc(diverse_recs), n_final)

\* the mutant gives up at the first candidate whose product is gone
HydrateUntilMissing(products, final_recs) ==
    LET missing == {i \in 1..Len(final_recs) :
                       final_recs[i].product_id \notin DOMAIN products}
        found == IF missing = {} THEN final_recs
                 ELSE SubSeq(final_recs, 1,
                             (CHOOSE i \in missing : \A j \in missing : i <= j) - 1)
    IN [i \in 1..Len(found) |->
          [product_id |-> found[i].product_id,
           product_category |-> products[found[i].product_id].category,
           recommendation_score |-> found[i].score,
           reason_factors |->
               ("final_score" :> found[i].score) @@ found[i].components]]

\* the result objects of get_recommendations: candidates whose product is
\* gone are skipped, final_score is added to the breakdown
Hydrate(products, final_recs) ==
    LET found == SelectSeq(final_recs, LAMBDA r : r.product_id \in DOMAIN products)
    IN [i \in 1..Len(found) |->
          [product_id |-> found[i].product_id,
           product_category |-> products[found[i].product_id].category,
           recommendation_score |-> found[i].score,
           reason_factors |->
               ("final_score" :> found[i].score) @@ found[i].components]]

\* RecommendationService.get_recommendations at time t
get_recommendations(s, interactions, products, t, user_id, n, apply_rules) ==
    LET must_train == \/ s.collaborative_filter.user_item_matrix.isNone
                      \/ s._last_training_time = NoTime
                      \/ (t - s._last_training_time) > _cache_ttl
        Ranked(fits, hybrid) ==
            IF hybrid.raised # ""
            THEN [svc |-> hybrid.svc, raised |-> hybrid.raised,
                  fits |-> fits + hybrid.fits, hybrid |-> <<>>, results |-> <<>>]
            ELSE [svc |-> hybrid.svc, raised |-> "", fits |-> fits + hybrid.fits,
                  hybrid |-> hybrid.recs,
                  results |->
                      IF hybrid.recs = <<>> THEN <<>>
                      ELSE IF apply_rules
                      THEN Hydrate(products,
                               apply_business_rules(interactions, products,
                                                    user_id, hybrid.recs, n))
                      ELSE Hydrate(products,
                               [i \in 1..Min2(n, Len(hybrid.recs)) |->
                                   [hybrid.recs[i] EXCEPT !.score = @ * 1000]])]
        Trained(trained) ==
            IF trained.raised
            THEN [svc |-> trained.svc, raised |-> "ValueError",
                  fits |-> trained.fits, hybrid |-> <<>>, results |-> <<>>]
            ELSE Ranked(trained.fits,
                     get_hybrid_recommendations(
                         IF must_train
                         THEN [trained.svc EXCEPT !._last_training_time = t]
                         ELSE trained.svc,
                         interactions, products, user_id, n * 3))
    IN Trained(IF must_train
               THEN train_models(s, interactions, products, t)
               ELSE [svc |-> s, raised |-> FALSE, fits |-> 0, cached |-> TRUE])

\* RecommendationService.get_similar_products: lazy content fit, the
\* engine's list, then the result objects of the products still in the table
service_get_similar_products(s, products, product_id, n) ==
    LET Similar(fitted) ==
            IF fitted.raised
            THEN [svc |-> [s EXCEPT !.content_based_filter = fitted.cb],
                  raised |-> "ValueError", candidates |-> <<>>, results |-> <<>>]
            ELSE LET Found(similar_products) ==
                         [svc |-> [s EXCEPT !.content_based_filter = fitted.cb],
                          raised |-> "",
                          candidates |-> similar_products,
                          results |->
                              LET found == SelectSeq(similar_products,
                                      LAMBDA r : r.product_id \in DOMAIN products)
                              IN [i \in 1..Len(found) |->
                                    [product_id |-> found[i].product_id,
                                     product_category |->
                                         products[found[i].product_id].category,
                                     recommendation_score |-> found[i].score,
                                     reason_factors |->
                                         [content_similarity |-> found[i].score,
                                          final_score |-> found[i].score]]]]
                 IN Found(get_similar_products(fitted.cb, product_id, n))
    IN Similar(IF s.content_based_filter.feature_matrix.isNone
               THEN cb_fit(s.content_based_filter, products)
               ELSE [cb |-> s.content_based_filter, raised |-> FALSE])

(***************************************************************************)
(* LLMService (app/services/llm_service.py).  Times are whole seconds.    *)
(***************************************************************************)
cache_ttl == 3600
max_requests_per_minute == 50

\* LLMService.__init__ with a client: an empty ExplanationCache and a
\* RateLimiter without requests.  issued is the history of the API: the times
\* of the chat.completions.create calls of the last minute.
NewLLMService(max_requests) ==
    [cache |-> [k \in {} |-> 0],
     rate_limiter |-> [max_requests |-> max_requests, requests |-> <<>>],
     issued |-> <<>>]

\* RateLimiter.wait_if_needed at time t: the requests it holds afterwards
\* and the seconds it slept
wait_if_needed(rate_limiter, t) ==
    LET requests == SelectSeq(rate_limiter.requests, LAMBDA q : q > t - 60)
    IN IF Len(requests) >= rate_limiter.max_requests
       THEN LET wait_time == 61 - (t - requests[1])
            IN IF wait_time > 0
               THEN [requests |-> <<t>>, slept |-> wait_time]
               ELSE [requests |-> Append(requests, t), slept |-> 0]
       ELSE [requests |-> Append(requests, t), slept |-> 0]

\* ExplanationCache.get: the key is held and not expired
Cached(cache, key, t) == key \in DOMAIN cache /\ t - cache[key] < cache_ttl

\* LLMService.generate_explanation at time t with a client; outcome is what
\* the API does with the request.  The result is the service afterwards
\* and the time at which the call returns.
generate_explanation(l, t, user_id, product_id, outcome) ==
    IF Cached(l.cache, <<user_id, product_id>>, t)
    THEN [llm |-> l, at |-> t]
    ELSE LET Called(limited) ==
                 LET Issued(start) ==
                         [llm |->
                             [cache |->
                                  IF outcome = "ok"
                                  THEN [k \in DOMAIN l.cache
                                               \cup {<<user_id, product_id>>} |->
                                           IF k = <<user_id, product_id>>
                                           THEN start ELSE l.cache[k]]
                                  ELSE l.cache,
                              rate_limiter |->
                                  [l.rate_limiter EXCEPT
                                       !.requests = limited.requests],
                              issued |->
                                  Append(SelectSeq(l.issued,
                                             LAMBDA q : start - q < 60), start)],
                          at |-> IF outcome = "RateLimitError"
                                 THEN start + 10 ELSE start]
                 IN Issued(t + limited.slept)
         IN Called(wait_if_needed(l.rate_limiter, t))

(***************************************************************************)
(* The state machine.                                                      *)
(*   store    the user_interactions table, in insertion order              *)
(*   catalog  the products table: id -> product                            *)
(*   now      time.time(), in seconds                                      *)
(*   svc      a RecommendationService instance that outlives a call (the   *)
(*            test scripts make several calls on one instance)             *)
(*   ret      what the last call returned; NoCall once the caller moved on *)
(*   lastApi  when the API last served a recommendation request            *)
(***************************************************************************)
NoCall == [op |-> "none"]

EmptyCatalog == [p \in {} |-> Product("A", 1, <<>>)]

CatalogOneCategory ==
    (1 :> Product("A", 1, <<"audio">>)) @@ (2 :> Product("A", 2, <<"video">>)) @@
    (3 :> Product("A", 1, <<"audio">>)) @@ (4 :> Product("A", 3, <<>>))

CatalogMixed ==
    (1 :> Product("A", 1, <<"audio">>)) @@ (2 :> Product("B", 2, <<"video">>)) @@
    (3 :> Product("A", 2, <<"audio">>)) @@ (4 :> Product("B", 1, <<>>))

CatalogUntagged ==
    (1 :> Product("A", 1, <<>>)) @@ (2 :> Product("B", 2, <<>>))

\* the interactions of the example scenario
ScenarioStore ==
    <<UserInteraction(1, 1, "purchase"), UserInteraction(1, 2, "view"),
      UserInteraction(2, 1, "purchase"), UserInteraction(2, 3, "purchase")>>

\* a history over the untagged catalog
UntaggedStore ==
    <<UserInteraction(1, 1, "click"), UserInteraction(2, 2, "cart_add")>>

Seeds ==
    {[catalog |-> EmptyCatalog, store |-> <<>>],
     [catalog |-> CatalogOneCategory, store |-> <<>>],
     [catalog |-> CatalogMixed, store |-> ScenarioStore],
     [catalog |-> CatalogUntagged, store |-> UntaggedStore]}

Init ==
    /\ \E seed \in Seeds : catalog = seed.catalog /\ store = seed.store
    /\ now = 1
    /\ svc = NewRecommendationService
    /\ ret = NoCall
    /\ lastApi = NoTime
    /\ llm = NewLLMService(max_requests_per_minute)

\* the number of interactions logged since the initial state
Logged ==
    Len(store) - (CASE catalog = CatalogMixed -> Len(ScenarioStore)
                    [] catalog = CatalogUntagged -> Len(UntaggedStore)
                    [] OTHER -> 0)

\* routes/interactions.py create_interaction: user and product must exist
create_interaction(user_id, product_id, interaction_type) ==
    /\ ret = NoCall
    /\ Logged < MaxInteractions
    /\ product_id \in DOMAIN catalog
    /\ store' = Append(store, UserInteraction(user_id, product_id, interaction_type))
    /\ UNCHANGED <<catalog, now, svc, ret, lastApi, llm>>

\* time passes between calls
Tick ==
    /\ ret = NoCall
    /\ now + TickSeconds <= MaxTime
    /\ now' = now + TickSeconds
    /\ UNCHANGED <<store, catalog, svc, ret, lastApi, llm>>

\* the caller takes the returned value and moves on
Return ==
    /\ ret # NoCall
    /\ ret' = NoCall
    /\ UNCHANGED <<store, catalog, now, svc, lastApi, llm>>

\* rec_service.get_recommendations(...) on the long-lived instance
ServiceGetRecommendations(user_id, n, apply_rules) ==
    /\ ret = NoCall
    /\ \E r \in {get_recommendations(svc, store, catalog, now, user_id, n,
                                     apply_rules)} :
          /\ svc' = r.svc
          /\ ret' = [op |-> "get_recommendations", api |-> FALSE,
                     user_id |-> user_id, n |-> n, apply_rules |-> apply_rules,
                     raised |-> r.raised, fits |-> r.fits, since |-> NoTime,
                     hybrid |-> r.hybrid, results |-> r.results]
    /\ UNCHANGED <<store, catalog, now, lastApi, llm>>

\* routes/recommendations_enhanced.py get_user_recommendations_enhanced:
\* every request builds its own RecommendationService
ApiGetRecommendations(user_id, n, apply_rules) ==
    /\ ret = NoCall
    /\ \E r \in {get_recommendations(NewRecommendationService, store, catalog,
                                     now, user_id, n, apply_rules)} :
          ret' = [op |-> "get_recommendations", api |-> TRUE,
                  user_id |-> user_id, n |-> n, apply_rules |-> apply_rules,
                  raised |-> r.raised, fits |-> r.fits, since |-> lastApi,
                  hybrid |-> r.hybrid, results |-> r.results]
    /\ lastApi' = now
    /\ UNCHANGED <<store, catalog, now, svc, llm>>

\* rec_service.train_models() on the long-lived instance
ServiceTrainModels ==
    /\ ret = NoCall
    /\ \E r \in {train_models(svc, store, catalog, now)} :
          /\ svc' = r.svc
          /\ ret' = [op |-> "train_models", raised |-> r.raised,
                     fits |-> r.fits, cached |-> r.cached]
    /\ UNCHANGED <<store, catalog, now, lastApi, llm>>

\* collaborative_filter.fit() on the instance's collaborative engine
EngineFit ==
    /\ ret = NoCall
    /\ svc' = [svc EXCEPT !.collaborative_filter = fit(@, store)]
    /\ ret' = [op |-> "fit"]
    /\ UNCHANGED <<store, catalog, now, lastApi, llm>>

\* collaborative_filter.get_recommendations(user_id, n, method) on the
\* instance's collaborative engine
EngineGetRecommendations(user_id, n, method) ==
    /\ ret = NoCall
    /\ \E cf \in {cf_ensure_fit(svc.collaborative_filter, store)} :
          /\ svc' = [svc EXCEPT !.collaborative_filter = cf]
          /\ ret' = [op |-> "cf_get_recommendations", user_id |-> user_id,
                     n |-> n, method |-> method,
                     recs |-> cf_recommend(cf, catalog, user_id, n, method)]
    /\ UNCHANGED <<store, catalog, now, lastApi, llm>>

Log ==
    \E u \in Shoppers, p \in Products, t \in InteractionType :
        create_interaction(u, p, t)

\* the service as the scripts use it: one instance, many calls
Next ==
    \/ Log
    \/ Tick
    \/ \E u \in Users, n \in NValues, b \in BOOLEAN :
           ServiceGetRecommendations(u, n, b)
    \/ ServiceTrainModels
    \/ Return

Spec == Init /\ [][Next]_vars

\* the service as the API uses it: one instance per request
NextApi ==
    \/ Log
    \/ Tick
    \/ \E u \in Users, n \in NValues, b \in BOOLEAN :
           ApiGetRecommendations(u, n, b)
    \/ Return

SpecApi == Init /\ [][NextApi]_vars

\* the collaborative engine used on its own
NextEngine ==
    \/ Log
    \/ EngineFit
    \/ \E u \in Users, n \in NValues,
          m \in {"user_based", "item_based", "hybrid"} :
           EngineGetRecommendations(u, n, m)
    \/ Return

SpecEngine == Init /\ [][NextEngine]_vars

\* database/init_db.py reset_database: every table is dropped and recreated
ResetDatabase ==
    /\ ret = NoCall
    /\ DOMAIN catalog # {}
    /\ store' = <<>>
    /\ catalog' = EmptyCatalog
    /\ UNCHANGED <<now, svc, ret, lastApi, llm>>

\* collaborative_filter.get_user_based_recommendations(user_id, n) or
\* get_item_based_recommendations(user_id, n), called on the engine as it is
EngineQuery(user_id, n, method) ==
    /\ ret = NoCall
    /\ ret' = [op |-> "cf_query", user_id |-> user_id, n |-> n,
               method |-> method,
               recs |-> IF method = "user_based"
                        THEN get_user_based_recommendations(
                                 svc.collaborative_filter, user_id, n)
                        ELSE get_item_based_recommendations(
                                 svc.collaborative_filter, user_id, n)]
    /\ UNCHANGED <<store, catalog, now, svc, lastApi, llm>>

\* content_based_filter.fit() on the instance's content engine
ContentFit ==
    /\ ret = NoCall
    /\ \E r \in {cb_fit(svc.content_based_filter, catalog)} :
          /\ svc' = [svc EXCEPT !.content_based_filter = r.cb]
          /\ ret' = [op |-> "cb_fit", raised |-> r.raised]
    /\ UNCHANGED <<store, catalog, now, lastApi, llm>>

\* content_based_filter.get_similar_products(product_id, n)
ContentGetSimilar(product_id, n) ==
    /\ ret = NoCall
    /\ ret' = [op |-> "cb_similar", product_id |-> product_id, n |-> n,
               recs |-> get_similar_products(svc.content_based_filter,
                                             product_id, n)]
    /\ UNCHANGED <<store, catalog, now, svc, lastApi, llm>>

\* content_based_filter.get_recommendations_for_user(user_id, n)
ContentGetForUser(user_id, n) ==
    /\ ret = NoCall
    /\ ret' = [op |-> "cb_for_user", user_id |-> user_id, n |-> n,
               recs |-> get_recommendations_for_user(svc.content_based_filter,
                            store, catalog, user_id, n)]
    /\ UNCHANGED <<store, catalog, now, svc, lastApi, llm>>

\* both engines used on their own over a database that can be reset
NextEngines ==
    \/ Log
    \/ ResetDatabase
    \/ EngineFit
    \/ \E u \in Users, n \in NValues, m \in {"user_based", "item_based"} :
           EngineQuery(u, n, m)
    \/ ContentFit
    \/ \E p \in Products, n \in NValues : ContentGetSimilar(p, n)
    \/ \E u \in Users, n \in NValues : ContentGetForUser(u, n)
    \/ Return

SpecEngines == Init /\ [][NextEngines]_vars

\* the number of products that have left the catalog
Deleted == Cardinality(Products \ DOMAIN catalog)

\* a product row is deleted; its interactions go with it (cascade)
delete_product(product_id) ==
    /\ ret = NoCall
    /\ product_id \in DOMAIN catalog
    /\ Deleted < MaxDeleted
    /\ catalog' = [q \in DOMAIN catalog \ {product_id} |-> catalog[q]]
    /\ store' = SelectSeq(store, LAMBDA i : i.product_id # product_id)
    /\ UNCHANGED <<now, svc, ret, lastApi, llm>>

\* rec_service.get_similar_products(product_id, n) on the long-lived instance
ServiceGetSimilarProducts(product_id, n) ==
    /\ ret = NoCall
    /\ \E r \in {service_get_similar_products(svc, catalog, product_id, n)} :
          /\ svc' = r.svc
          /\ ret' = [op |-> "get_similar_products", product_id |-> product_id,
                     n |-> n, raised |-> r.raised,
                     candidates |-> r.candidates, results |-> r.results]
    /\ UNCHANGED <<store, catalog, now, lastApi, llm>>

\* the service over a catalog that loses products between calls
NextCatalog ==
    \/ Log
    \/ \E p \in Products : delete_product(p)
    \/ \E u \in Users, n \in NValues, b \in BOOLEAN :
           ServiceGetRecommendations(u, n, b)
    \/ \E p \in Products, n \in NValues : ServiceGetSimilarProducts(p, n)
    \/ Return

SpecCatalog == Init /\ [][NextCatalog]_vars

\* the users of the collaborative scenarios
Members == {1, 2, 3}

Sizes == {1, 5}

\* two users with the same single interaction and a third one apart
TwinStore ==
    <<UserInteraction(1, 1, "view"), UserInteraction(2, 1, "view"),
      UserInteraction(3, 2, "purchase")>>

CollabStores == {<<>>, ScenarioStore, TwinStore}

InitCollab ==
    /\ catalog = CatalogMixed
    /\ store \in CollabStores
    /\ now = 1
    /\ svc = NewRecommendationService
    /\ ret = NoCall
    /\ lastApi = NoTime
    /\ llm = NewLLMService(max_requests_per_minute)

\* any user views or purchases a product
LogCollab ==
    /\ ret = NoCall
    /\ \E seed \in CollabStores :
          /\ Len(store) - Len(seed) \in 0..(MaxInteractions - 1)
          /\ SubSeq(store, 1, Len(seed)) = seed
    /\ \E u \in Members, p \in DOMAIN catalog, t \in {"view", "purchase"} :
          store' = Append(store, UserInteraction(u, p, t))
    /\ UNCHANGED <<catalog, now, svc, ret, lastApi, llm>>

\* collaborative_filter.get_hybrid_recommendations(user_id, n), called on
\* the engine as it is
EngineHybrid(user_id, n) ==
    /\ ret = NoCall
    /\ ret' = [op |-> "cf_hybrid", user_id |-> user_id, n |-> n,
               recs |-> cf_get_hybrid_recommendations(
                            svc.collaborative_filter, user_id, n)]
    /\ UNCHANGED <<store, catalog, now, svc, lastApi, llm>>

\* collaborative_filter.get_popular_products(n, exclude_product_ids)
EnginePopular(n, exclude_product_ids) ==
    /\ ret = NoCall
    /\ ret' = [op |-> "cf_popular", n |-> n, exclude |-> exclude_product_ids,
               recs |-> get_popular_products(svc.collaborative_filter, catalog,
                                             n, exclude_product_ids)]
    /\ UNCHANGED <<store, catalog, now, svc, lastApi, llm>>

\* the collaborative engine over histories of several users
NextCollab ==
    \/ LogCollab
    \/ EngineFit
    \/ \E u \in Members, n \in Sizes, m \in {"user_based", "item_based"} :
           EngineQuery(u, n, m)
    \/ \E u \in Members, n \in Sizes : EngineHybrid(u, n)
    \/ \E n \in Sizes, x \in {{}, {1}, {2, 3}} : EnginePopular(n, x)
    \/ \E u \in Members, n \in Sizes,
          m \in {"user_based", "item_based", "hybrid"} :
           EngineGetRecommendations(u, n, m)
    \/ Return

SpecCollab == InitCollab /\ [][NextCollab]_vars

\* the seconds that pass between two calls
Pauses == {20, 59}

\* the limits the explanation service is created with
Limits == {1, 2}

InitLimiter ==
    /\ catalog = CatalogMixed
    /\ store = <<>>
    /\ now = 1
    /\ svc = NewRecommendationService
    /\ ret = NoCall
    /\ lastApi = NoTime
    /\ \E m \in Limits : llm = NewLLMService(m)

\* time passes between two explanation requests
Elapse(d) ==
    /\ now + d <= MaxClock
    /\ now' = now + d
    /\ UNCHANGED <<store, catalog, svc, ret, lastApi, llm>>

\* llm_service.generate_explanation(user_data, product, factors); a call
\* that waits for the rate limiter returns that much later
GenerateExplanation(user_id, product_id, outcome) ==
    /\ \E r \in {generate_explanation(llm, now, user_id, product_id, outcome)} :
          /\ r.at <= MaxClock
          /\ llm' = r.llm
          /\ now' = r.at
    /\ UNCHANGED <<store, catalog, svc, ret, lastApi>>

\* one explanation service serving requests one after the other
NextLimiter ==
    \/ \E d \in Pauses : Elapse(d)
    \/ \E p \in DOMAIN catalog,
          o \in {"ok", "APIError", "RateLimitError"} :
           GenerateExplanation(1, p, o)

SpecLimiter == InitLimiter /\ [][NextLimiter]_vars

(***************************************************************************)
(* Properties.                                                             *)
(***************************************************************************)
RuledCall ==
    /\ ret.op = "get_recommendations"
    /\ ret.raised = ""
    /\ ret.apply_rules

Results == ret.results

PurchasedNow(u) ==
    {p \in Products : \E k \in 1..Len(store) :
        /\ store[k].user_id = u
        /\ store[k].product_id = p
        /\ store[k].interaction_type = "purchase"}

RECURSIVE ScoreSum(_, _, _)
ScoreSum(interactions, u, p) ==
    IF interactions = <<>> THEN 0
    ELSE (IF Head(interactions).user_id = u /\ Head(interactions).product_id = p
          THEN Head(interactions).interaction_score ELSE 0)
         + ScoreSum(Tail(interactions), u, p)

\* C1: with apply_rules=True get_recommendations returns no product the user
\* has a PURCHASE interaction for in the store at the time of the call, stale
\* trained models included; the purchased candidates are dropped and the
\* remaining candidates fill the list, up to n.
C1_NoPurchasedProduct ==
    RuledCall =>
        LET bought == PurchasedNow(ret.user_id)
            rest == {i \in 1..Len(ret.hybrid) :
                        ret.hybrid[i].product_id \notin bought}
        IN /\ \A i \in 1..Len(Results) : Results[i].product_id \notin bought
           /\ \A i \in 1..Len(Results) :
                 \E j \in rest : ret.hybrid[j].product_id = Results[i].product_id
           /\ Len(Results) = Min2(ret.n, Cardinality(rest))

\* a reused (not refitted) model that predates the purchase of the candidate
\* ranked first in the hybrid list, and a non-empty answer without it
C1_Witness ==
    /\ RuledCall
    /\ ~ret.api
    /\ ret.fits = 0
    /\ Len(ret.hybrid) > 1
    /\ Len(Results) > 0
    /\ LET p == ret.hybrid[1].product_id
           df == svc.collaborative_filter.user_item_matrix
       IN /\ p \in PurchasedNow(ret.user_id)
          /\ store[Len(store)] = UserInteraction(ret.user_id, p, "purchase")
          /\ df.cell[<<ret.user_id, p>>] = 0

\* C2: in a ruled answer the results of one category, in order, carry
\* diversity_penalty 1.0 for the first max_products_per_category of them and
\* 0.8 for every further one, whose score is multiplied by 0.8.
C2_DiversityPenalty ==
    RuledCall =>
        \A i \in 1..Len(Results) :
            LET earlier == {j \in 1..(i - 1) :
                    Results[j].product_category = Results[i].product_category}
                rf == Results[i].reason_factors
            IN /\ rf["diversity_penalty"] =
                      (IF Cardinality(earlier) < max_products_per_category
                       THEN 10 ELSE diversity_penalty)
               /\ Results[i].recommendation_score =
                      rf["combined_base_score"] * rf["category_boost"]
                          * rf["diversity_penalty"]

C2_Witness ==
    /\ RuledCall
    /\ \E i \in 1..Len(Results) :
          /\ Results[i].reason_factors["diversity_penalty"] = diversity_penalty
          /\ Results[i].recommendation_score > 0

\* C3: in a ruled answer no category accounts for more than
\* 1.5 * max_products_per_category (3) of the returned products.
C3_CategoryCap ==
    RuledCall =>
        \A c \in Range(CategoryOrder) :
            2 * Cardinality({i \in 1..Len(Results) :
                    Results[i].product_category = c})
                <= 3 * max_products_per_category

\* C4: with no interaction in the store get_recommendations does not raise.
C4_EmptyStateNoError ==
    (ret.op = "get_recommendations" /\ store = <<>>) => ret.raised = ""

\* C5: for a user without interactions the collaborative engine's
\* get_recommendations returns what get_popular_products(n) returns, for
\* every method.
C5_ColdStartIsPopular ==
    (/\ ret.op = "cf_get_recommendations"
     /\ \A k \in 1..Len(store) : store[k].user_id # ret.user_id)
    => ret.recs = get_popular_products(svc.collaborative_filter, catalog,
                                       ret.n, {})

C5_Witness ==
    /\ ret.op = "cf_get_recommendations"
    /\ ret.method = "user_based"
    /\ \A k \in 1..Len(store) : store[k].user_id # ret.user_id
    /\ ~Empty(svc.collaborative_filter.user_item_matrix)
    /\ Len(ret.recs) > 0

\* C6: after fit the matrix holds at (u,p) the sum of the interaction scores
\* of u with p in the store (0 when there is none), and it is empty exactly
\* when the store holds no interaction.
C6_MatrixIsSum ==
    ret.op = "fit" =>
        LET df == svc.collaborative_filter.user_item_matrix
        IN /\ \A u \in Users, p \in Products :
                 (IF <<u, p>> \in DOMAIN df.cell THEN df.cell[<<u, p>>] ELSE 0)
                     = ScoreSum(store, u, p)
           /\ Empty(df) <=> (store = <<>>)

C6_Witness ==
    /\ ret.op = "fit"
    /\ \E u \in Users, p \in Products :
          /\ Cardinality({k \in 1..Len(store) :
                 store[k].user_id = u /\ store[k].product_id = p}) > 1
          /\ svc.collaborative_filter.user_item_matrix.cell[<<u, p>>] > 5

\* C7: the combined score of every hybrid candidate is 0.4 * normalized
\* collaborative score + 0.6 * normalized content-based score.
C7_FixedWeights ==
    (ret.op = "get_recommendations" /\ ret.raised = "") =>
        LET collab == cf_recommend(svc.collaborative_filter, catalog,
                                   ret.user_id, ret.n * 3, "hybrid")
            content == get_recommendations_for_user(svc.content_based_filter,
                           store, catalog, ret.user_id, ret.n * 3)
        IN \A i \in 1..Len(ret.hybrid) :
              LET p == ret.hybrid[i].product_id
              IN ret.hybrid[i].score =
                    collaborative_weight
                        * ((SCALE * DictGet(collab, p)) \div MaxScore(collab))
                    + content_based_weight
                        * ((SCALE * DictGet(content, p)) \div MaxScore(content))

\* C8: in a ruled answer a result of a preferred (top-3) category records
\* category_boost 1.3, every other result records 1.0, and no other value
\* occurs.
C8_FlatBoost ==
    RuledCall =>
        LET preferred == get_user_preferred_categories(store, catalog,
                                                       ret.user_id, 3)
            cats == {preferred[i].category : i \in 1..Len(preferred)}
        IN \A i \in 1..Len(Results) :
              Results[i].reason_factors["category_boost"] =
                  (IF Results[i].product_category \in cats
                   THEN category_boost_factor ELSE 100)

\* C9: every result of a ruled answer carries category_boost and
\* diversity_penalty, its score is combined_base_score * category_boost *
\* diversity_penalty, and combined_base_score is collaborative_score +
\* content_based_score.
C9_Explainable ==
    RuledCall =>
        \A i \in 1..Len(Results) :
            LET rf == Results[i].reason_factors
            IN /\ {"category_boost", "diversity_penalty"} \subseteq DOMAIN rf
               /\ Results[i].recommendation_score =
                      rf["combined_base_score"] * rf["category_boost"]
                          * rf["diversity_penalty"]
               /\ rf["final_score"] = Results[i].recommendation_score
               /\ rf["combined_base_score"] =
                      rf["collaborative_score"] + rf["content_based_score"]

C9_Witness ==
    /\ RuledCall
    /\ \E i \in 1..Len(Results) :
          /\ Results[i].reason_factors["category_boost"] > 100
          /\ Results[i].reason_factors["diversity_penalty"] = diversity_penalty
          /\ Results[i].reason_factors["collaborative_score"] > 0
          /\ Results[i].reason_factors["content_based_score"] > 0

\* C10: an API recommendation request served less than 300 s after the
\* previous one calls fit() on neither engine.
C10_ApiReusesModels ==
    (/\ ret.op = "get_recommendations"
     /\ ret.api
     /\ ret.since # NoTime
     /\ now - ret.since < _cache_ttl)
    => ret.fits = 0

\* C11: a second fit() on unchanged data leaves the engine as the first fit()
\* left it, for the collaborative and for the content engine.
C11_FitIdempotent ==
    /\ ret.op = "fit" =>
           fit(svc.collaborative_filter, store) = svc.collaborative_filter
    /\ ret.op = "cb_fit" =>
           \A again \in {cb_fit(svc.content_based_filter, catalog)} :
               /\ again.cb = svc.content_based_filter
               /\ again.raised = ret.raised

C11_Witness ==
    /\ ret.op = "cb_fit"
    /\ ~ret.raised
    /\ Side(svc.content_based_filter.similarity_matrix) > 1
    /\ ~Empty(svc.collaborative_filter.user_item_matrix)
    /\ Side(svc.collaborative_filter.user_similarity_matrix) > 1

\* the users and the products that occur in the store
StoreUsers == {store[k].user_id : k \in 1..Len(store)}

StoreProducts == {store[k].product_id : k \in 1..Len(store)}

\* C12: after fit() the mappings are mutually inverse bijections over
\* exactly the user ids and product ids of the store, and both similarity
\* matrices have one row per such id; nothing of an earlier fit survives.
C12_FitIsFullRebuild ==
    ret.op = "fit" =>
        LET cf == svc.collaborative_filter
        IN /\ DOMAIN cf.user_id_to_idx = StoreUsers
           /\ DOMAIN cf.product_id_to_idx = StoreProducts
           /\ DOMAIN cf.idx_to_user_id = 1..Cardinality(StoreUsers)
           /\ DOMAIN cf.idx_to_product_id = 1..Cardinality(StoreProducts)
           /\ \A u \in StoreUsers : cf.idx_to_user_id[cf.user_id_to_idx[u]] = u
           /\ \A q \in StoreProducts :
                 cf.idx_to_product_id[cf.product_id_to_idx[q]] = q
           /\ Side(cf.user_similarity_matrix) = Cardinality(StoreUsers)
           /\ Side(cf.item_similarity_matrix) = Cardinality(StoreProducts)

\* the most recent content fit() saw an empty catalog
FitSawEmptyCatalog ==
    /\ ~svc.content_based_filter.feature_matrix.isNone
    /\ svc.content_based_filter.feature_matrix.rows = <<>>

\* C13: after a content fit() on an empty catalog get_similar_products and
\* get_recommendations_for_user return an empty list.
C13_EmptyCatalogUntrained ==
    (ret.op \in {"cb_similar", "cb_for_user"} /\ FitSawEmptyCatalog)
        => ret.recs = <<>>

\* the similarity of product q to the queried product in the content engine
SimilarityTo(q) ==
    LET cb == svc.content_based_filter
    IN cb.similarity_matrix.m[<<cb.product_id_to_idx[ret.product_id],
                                cb.product_id_to_idx[q]>>]

\* C14: get_similar_products(p, n) of a trained engine and a known p returns
\* min(n, size - 1) products other than p, the most similar ones, in
\* non-increasing order of similarity; otherwise it returns nothing.
C14_SimilarExcludesSelf ==
    ret.op = "cb_similar" =>
        LET cb == svc.content_based_filter
            ids == DOMAIN cb.product_id_to_idx
            returned == {ret.recs[i].product_id : i \in 1..Len(ret.recs)}
        IN IF cb.similarity_matrix.isNone \/ ret.product_id \notin ids
           THEN ret.recs = <<>>
           ELSE /\ Len(ret.recs) = Min2(ret.n, Cardinality(ids) - 1)
                /\ Cardinality(returned) = Len(ret.recs)
                /\ ret.product_id \notin returned
                /\ returned \subseteq ids
                /\ \A i \in 1..Len(ret.recs) :
                      ret.recs[i].score = SimilarityTo(ret.recs[i].product_id)
                /\ \A i, j \in 1..Len(ret.recs) :
                      i < j => ret.recs[i].score >= ret.recs[j].score
                /\ \A q \in ids \ (returned \cup {ret.product_id}) :
                      \A i \in 1..Len(ret.recs) :
                          SimilarityTo(q) <= ret.recs[i].score

\* C15: get_recommendations_for_user(u, n) returns no product u has an
\* interaction with in the store.
C15_NoInteractedProduct ==
    ret.op = "cb_for_user" =>
        \A i \in 1..Len(ret.recs) :
            \A k \in 1..Len(store) :
                ~(/\ store[k].user_id = ret.user_id
                  /\ store[k].product_id = ret.recs[i].product_id)

\* the engine can answer for the queried user: it holds a non-empty matrix
\* with a row for that user
KnownUser ==
    /\ ~svc.collaborative_filter.user_item_matrix.isNone
    /\ ~Empty(svc.collaborative_filter.user_item_matrix)
    /\ ret.user_id \in Range(svc.collaborative_filter.user_item_matrix.index)

\* the neighbours get_user_based_recommendations retains for the queried
\* user: positions 2..6 of the users by decreasing similarity, those with a
\* positive similarity
Neighbours ==
    LET cf == svc.collaborative_filter
        nu == Len(cf.user_item_matrix.index)
        u == cf.user_id_to_idx[ret.user_id]
        order == ArgsortReversed(
                     [j \in 1..nu |-> cf.user_similarity_matrix.m[<<u, j>>]], nu)
    IN {order[i] : i \in 2..Min2(6, nu)}
           \cap {j \in 1..nu : cf.user_similarity_matrix.m[<<u, j>>] > 0}

\* the sum over the retained neighbours v of similarity(u, v) * matrix[v][q]
NeighbourTotal(q) ==
    LET cf == svc.collaborative_filter
        df == cf.user_item_matrix
        u == cf.user_id_to_idx[ret.user_id]
    IN SumOver(Neighbours,
               [v \in Neighbours |->
                   10 * cf.user_similarity_matrix.m[<<u, v>>]
                      * df.cell[<<df.index[v], q>>]])

C17_UnknownUserEmpty ==
    (ret.op = "cf_query" /\ ~KnownUser) => ret.recs = <<>>

C17_Witness ==
    /\ ret.op = "cf_query"
    /\ ret.method = "item_based"
    /\ ~svc.collaborative_filter.user_item_matrix.isNone
    /\ ~Empty(svc.collaborative_filter.user_item_matrix)
    /\ ret.user_id \notin Range(svc.collaborative_filter.user_item_matrix.index)
    /\ ret.recs = <<>>

\* a is a cosine similarity matrix over vectors 1..size, of which zero(i)
\* tells whether vector i is all-zero
IsCosineMatrix(a, size, zero(_)) ==
    /\ ~a.isNone
    /\ DOMAIN a.m = (1..size) \X (1..size)
    /\ \A i, j \in 1..size :
          /\ a.m[<<i, j>>] = a.m[<<j, i>>]
          /\ a.m[<<i, j>>] \in 0..SCALE
          /\ (i = j /\ ~zero(i)) => a.m[<<i, j>>] = SCALE
          /\ (zero(i) \/ zero(j)) => a.m[<<i, j>>] = 0

\* C19: after fit() the user-user, item-item and content similarity
\* matrices are symmetric, hold 1.0 on the diagonal of every non-zero vector
\* and 0 wherever one of the two vectors is all-zero.
C19_SimilaritySymmetric ==
    /\ (ret.op = "fit" /\ ~Empty(svc.collaborative_filter.user_item_matrix)) =>
          LET cf == svc.collaborative_filter
              df == cf.user_item_matrix
              zero_user(i) == \A q \in Range(df.columns) :
                                  df.cell[<<df.index[i], q>>] = 0
              zero_item(k) == \A u \in Range(df.index) :
                                  df.cell[<<u, df.columns[k]>>] = 0
          IN /\ IsCosineMatrix(cf.user_similarity_matrix, Len(df.index),
                               zero_user)
             /\ IsCosineMatrix(cf.item_similarity_matrix, Len(df.columns),
                               zero_item)
    /\ (/\ ret.op = "cb_fit"
        /\ ~ret.raised
        /\ svc.content_based_filter.feature_matrix.rows # <<>>) =>
          LET cb == svc.content_based_filter
              rows == cb.feature_matrix.rows
              zero_row(i) == FeatureDot(rows[i], rows[i]) = 0
          IN IsCosineMatrix(cb.similarity_matrix, Len(rows), zero_row)

C19_Witness ==
    /\ ret.op = "fit"
    /\ \E i, j \in 1..Len(svc.collaborative_filter.user_item_matrix.index) :
          /\ i # j
          /\ svc.collaborative_filter.user_similarity_matrix.m[<<i, j>>] > 0
          /\ svc.collaborative_filter.user_similarity_matrix.m[<<i, j>>] < SCALE
    /\ \E i, j \in 1..Len(svc.content_based_filter.feature_matrix.rows) :
          /\ i # j
          /\ svc.content_based_filter.similarity_matrix.m[<<i, j>>] > 0
          /\ svc.content_based_filter.similarity_matrix.m[<<i, j>>] < SCALE

\* C20: get_recommendations(user, n, apply_rules) returns at most n results,
\* by non-increasing recommendation score, no product twice.
C20_AtMostNSortedUnique ==
    (ret.op = "get_recommendations" /\ ret.raised = "") =>
        /\ Len(Results) <= ret.n
        /\ \A i, j \in 1..Len(Results) :
              i < j =>
                  /\ Results[i].recommendation_score
                         >= Results[j].recommendation_score
                  /\ Results[i].product_id # Results[j].product_id

\* a ruled answer of several results with different scores
C20_Witness ==
    /\ RuledCall
    /\ Len(Results) > 2
    /\ Results[1].recommendation_score > Results[2].recommendation_score
    /\ Results[2].recommendation_score > Results[3].recommendation_score

\* the product ids of a list, in order
Ids(recs) == [i \in 1..Len(recs) |-> recs[i].product_id]

\* the candidates of a list whose product is in the catalog, in order
Present(recs) == SelectSeq(recs, LAMBDA r : r.product_id \in DOMAIN catalog)

\* C18: get_recommendations and get_similar_products return exactly the
\* final candidates whose product is still in the catalog, in the order of
\* the candidates; a candidate whose product is gone is skipped.
C18_MissingProductSkipped ==
    /\ (ret.op = "get_recommendations" /\ ret.raised = "") =>
          \A final_recs \in
                {IF ret.apply_rules
                 THEN apply_business_rules(store, catalog, ret.user_id,
                                           ret.hybrid, ret.n)
                 ELSE Take(ret.hybrid, ret.n)} :
              Ids(Results) = Ids(Present(final_recs))
    /\ (ret.op = "get_similar_products" /\ ret.raised = "") =>
          Ids(Results) = Ids(Present(ret.candidates))

\* an answer served from models fitted before a product was deleted: the
\* first candidate is gone and a later one is returned
C18_Witness ==
    /\ ret.op = "get_recommendations"
    /\ ret.raised = ""
    /\ ~ret.apply_rules
    /\ Len(ret.hybrid) > 1
    /\ ret.hybrid[1].product_id \notin DOMAIN catalog
    /\ Len(Results) > 0

\* the users other than the queried one that have a positive similarity to it
PositiveOthers ==
    LET cf == svc.collaborative_filter
        u == cf.user_id_to_idx[ret.user_id]
    IN {j \in 1..Len(cf.user_item_matrix.index) :
           j # u /\ cf.user_similarity_matrix.m[<<u, j>>] > 0}

\* C21: the neighbours of get_user_based_recommendations(u, n) are the (up
\* to) 5 users other than u most similar to u, those of positive
\* similarity; u is not its own neighbour and no other user is dropped for
\* it, also when another user ties with u at similarity 1.0.
C21_NeighboursAreNearestOthers ==
    (ret.op = "cf_query" /\ ret.method = "user_based" /\ KnownUser) =>
        LET cf == svc.collaborative_filter
            u == cf.user_id_to_idx[ret.user_id]
        IN /\ u \notin Neighbours
           /\ Neighbours \subseteq PositiveOthers
           /\ Cardinality(Neighbours) = Min2(5, Cardinality(PositiveOthers))
           /\ \A v \in PositiveOthers \ Neighbours : \A w \in Neighbours :
                 cf.user_similarity_matrix.m[<<u, v>>]
                     <= cf.user_similarity_matrix.m[<<u, w>>]

\* the columns the queried user has a positive score in
Sources ==
    LET df == svc.collaborative_filter.user_item_matrix
    IN {k \in 1..Len(df.columns) : df.cell[<<ret.user_id, df.columns[k]>>] > 0}

\* the sources that are similar to column q
SourcesOf(q) ==
    {k \in Sources \ {q} :
        svc.collaborative_filter.item_similarity_matrix.m[<<k, q>>] > 0}

\* the sum over the sources k of column q of item_similarity[k][q] times
\* the user's score on k
SourceTotal(q) ==
    LET cf == svc.collaborative_filter
        df == cf.user_item_matrix
    IN SumOver(SourcesOf(q),
               [k \in SourcesOf(q) |->
                   10 * cf.item_similarity_matrix.m[<<k, q>>]
                      * df.cell[<<ret.user_id, df.columns[k]>>]])

\* C22: get_item_based_recommendations(u, n) returns the n highest totals
\* over the products u has no score for that are similar to a product u has
\* a score for, each with the score sum of item_similarity * u's score.
C22_ItemBasedScores ==
    (ret.op = "cf_query" /\ ret.method = "item_based" /\ KnownUser) =>
        LET cf == svc.collaborative_filter
            df == cf.user_item_matrix
            candidates ==
                {q \in 1..Len(df.columns) :
                    q \notin Sources /\ SourcesOf(q) # {}}
            returned == {cf.product_id_to_idx[ret.recs[i].product_id] :
                            i \in 1..Len(ret.recs)}
        IN /\ \A i \in 1..Len(ret.recs) :
                 ret.recs[i].product_id \in Range(df.columns)
           /\ returned \subseteq candidates
           /\ Len(ret.recs) = Min2(ret.n, Cardinality(candidates))
           /\ Cardinality(returned) = Len(ret.recs)
           /\ \A i \in 1..Len(ret.recs) :
                 ret.recs[i].score =
                     SourceTotal(cf.product_id_to_idx[ret.recs[i].product_id])
           /\ \A i, j \in 1..Len(ret.recs) :
                 i < j => ret.recs[i].score >= ret.recs[j].score
           /\ \A q \in candidates \ returned :
                 \A i \in 1..Len(ret.recs) :
                     SourceTotal(q) <= ret.recs[i].score

\* a returned product that two of the user's products are similar to
C22_Witness ==
    /\ ret.op = "cf_query"
    /\ ret.method = "item_based"
    /\ KnownUser
    /\ \E i \in 1..Len(ret.recs) :
          Cardinality(SourcesOf(svc.collaborative_filter.product_id_to_idx[
                                    ret.recs[i].product_id])) > 1

NoInteractionData ==
    \/ svc.collaborative_filter.user_item_matrix.isNone
    \/ Empty(svc.collaborative_filter.user_item_matrix)

\* recs is a list of up to n different catalog products, each scored 1.0
CatalogProductsAtOne(recs, n) ==
    /\ Len(recs) = Min2(n, Cardinality(DOMAIN catalog))
    /\ Cardinality(DictKeys(recs)) = Len(recs)
    /\ \A i \in 1..Len(recs) :
          /\ recs[i].product_id \in DOMAIN catalog
          /\ recs[i].score = 10 * SCALE

\* the column sum of product q in the engine's matrix
Popularity(q) ==
    LET df == svc.collaborative_filter.user_item_matrix
    IN SumOver(Range(df.index), [u \in Range(df.index) |-> df.cell[<<u, q>>]])

\* C24: without interaction data get_popular_products returns up to n
\* catalog products scored 1.0, and so does get_recommendations; otherwise
\* it returns the n products of largest column sum that are not excluded,
\* scored by that sum, in non-increasing order.
C24_PopularProducts ==
    /\ (ret.op = "cf_popular" /\ NoInteractionData) =>
          CatalogProductsAtOne(ret.recs, ret.n)
    /\ (ret.op = "cf_get_recommendations" /\ NoInteractionData) =>
          CatalogProductsAtOne(ret.recs, ret.n)
    /\ (ret.op = "cf_popular" /\ ~NoInteractionData) =>
          LET df == svc.collaborative_filter.user_item_matrix
              candidates == Range(df.columns) \ ret.exclude
              returned == DictKeys(ret.recs)
          IN /\ returned \subseteq candidates
             /\ Len(ret.recs) = Min2(ret.n, Cardinality(candidates))
             /\ Cardinality(returned) = Len(ret.recs)
             /\ \A i \in 1..Len(ret.recs) :
                   ret.recs[i].score
                       = 10 * SCALE * Popularity(ret.recs[i].product_id)
             /\ \A i, j \in 1..Len(ret.recs) :
                   i < j => ret.recs[i].score >= ret.recs[j].score
             /\ \A q \in candidates \ returned :
                   \A i \in 1..Len(ret.recs) :
                       10 * SCALE * Popularity(q) <= ret.recs[i].score

\* popular products of a fitted engine with a column excluded and several
\* products of different popularity left
C24_Witness ==
    /\ ret.op = "cf_popular"
    /\ ~NoInteractionData
    /\ ret.exclude \cap
           Range(svc.collaborative_filter.user_item_matrix.columns) # {}
    /\ Len(ret.recs) > 1
    /\ ret.recs[1].score > ret.recs[2].score

\* the products the user of the call has a positive score for in the matrix
Interacted ==
    LET df == svc.collaborative_filter.user_item_matrix
    IN {q \in Range(df.columns) : df.cell[<<ret.user_id, q>>] > 0}

\* what the requested method yields for the call
MethodYield ==
    CASE ret.method = "user_based" ->
           get_user_based_recommendations(svc.collaborative_filter,
                                          ret.user_id, ret.n)
      [] ret.method = "item_based" ->
           get_item_based_recommendations(svc.collaborative_filter,
                                          ret.user_id, ret.n)
      [] OTHER ->
           cf_get_hybrid_recommendations(svc.collaborative_filter,
                                         ret.user_id, ret.n)

\* C25: for a user of the matrix get_recommendations returns what the
\* requested method yields, and the popular products without the user's
\* own when the method yields nothing.
C25_FallbackToPopular ==
    (ret.op = "cf_get_recommendations" /\ KnownUser) =>
        \A yield \in {MethodYield} :
            ret.recs = IF yield = <<>>
                       THEN get_popular_products(svc.collaborative_filter,
                                catalog, ret.n, Interacted)
                       ELSE yield

\* a user of the matrix for whom the method yields nothing gets a popular
\* product
C25_Witness ==
    /\ ret.op = "cf_get_recommendations"
    /\ KnownUser
    /\ MethodYield = <<>>
    /\ Len(ret.recs) > 0

\* C28: for a user of the matrix get_recommendations returns no product
\* the user has a positive score for, whatever the method.
C28_NoInteractedProduct ==
    (ret.op = "cf_get_recommendations" /\ KnownUser) =>
        DictKeys(ret.recs) \cap Interacted = {}

\* an answer of the requested method for a user with several products, and
\* a product of the matrix left out of it
C28_Witness ==
    /\ ret.op = "cf_get_recommendations"
    /\ KnownUser
    /\ Cardinality(Interacted) > 1
    /\ ret.n > 1
    /\ Len(ret.recs) > 0
    /\ MethodYield # <<>>

\* C26: after fit() on a non-empty store the rows of the matrix are the
\* users with an interaction, the columns the products with an interaction,
\* a cell is positive exactly when the store holds an interaction of that
\* user with that product, and no row and no column is all-zero.
C26_MatrixKeysAreInteractions ==
    (ret.op = "fit" /\ store # <<>>) =>
        LET cf == svc.collaborative_filter
            df == cf.user_item_matrix
        IN /\ Range(df.index) = StoreUsers
           /\ DOMAIN cf.user_id_to_idx = StoreUsers
           /\ Range(df.columns) = StoreProducts
           /\ DOMAIN cf.product_id_to_idx = StoreProducts
           /\ \A u \in Range(df.index) : \A q \in Range(df.columns) :
                 df.cell[<<u, q>>] > 0 <=>
                     \E k \in 1..Len(store) : /\ store[k].user_id = u
                                              /\ store[k].product_id = q
           /\ \A u \in Range(df.index) :
                 \E q \in Range(df.columns) : df.cell[<<u, q>>] > 0
           /\ \A q \in Range(df.columns) :
                 \E u \in Range(df.index) : df.cell[<<u, q>>] > 0

\* a fitted matrix with an empty cell, over a store in which a user's only
\* interaction is a view
C26_Witness ==
    /\ ret.op = "fit"
    /\ \E k \in DOMAIN svc.collaborative_filter.user_item_matrix.cell :
          svc.collaborative_filter.user_item_matrix.cell[k] = 0
    /\ \E u \in StoreUsers :
          \A k \in 1..Len(store) :
              store[k].user_id = u => store[k].interaction_type = "view"

\* the lists the two engines of the instance give get_hybrid_recommendations
\* for the user of the call
CollabList ==
    cf_recommend(svc.collaborative_filter, catalog, ret.user_id, 3 * ret.n,
                 "hybrid")

ContentList ==
    cb_get_recommendations(svc.content_based_filter, store, catalog,
                           ret.user_id, 3 * ret.n).recs

\* the weights of the call, in tenths
CallWeights ==
    HybridWeights(get_user_preferred_categories(store, catalog, ret.user_id, 3))

\* the entry of product q in the hybrid list of the call
HybridEntry(q) == CHOOSE e \in Range(ret.hybrid) : e.product_id = q

WithinTtl ==
    /\ svc._last_training_time # NoTime
    /\ now - svc._last_training_time < _cache_ttl

\* the call of this step fitted both engines on the current data and
\* recorded the time, unless the content fit raised
Retrained ==
    /\ ret'.fits = 2
    /\ svc'.collaborative_filter = fit(svc.collaborative_filter, store)
    /\ (IF ret'.op = "train_models" THEN ~ret'.raised
        ELSE ret'.raised # "ValueError") =>
          svc'._last_training_time = now

\* C29: train_models() within _cache_ttl of the last training fits nothing,
\* returns 0.0 and leaves the instance as it is; untrained or _cache_ttl or
\* more after it, it refits both engines and records the time;
\* get_recommendations retrains in exactly the same cases.
C29_RetrainsWhenExpired ==
    [][((ret = NoCall /\ ret'.op = "train_models") =>
            (IF WithinTtl
             THEN ret'.cached /\ ret'.fits = 0 /\ svc' = svc
             ELSE ~ret'.cached /\ Retrained))
       /\
       ((ret = NoCall /\ ret'.op = "get_recommendations") =>
            (IF WithinTtl
             THEN ret'.fits = 0 /\ svc' = svc
             ELSE Retrained))]_vars

\* C30: the LLM API is called at most max_requests_per_minute times within
\* any 60 seconds.
C30_RateLimitHolds ==
    Len(llm.issued) <= llm.rate_limiter.max_requests

====
